---- MODULE Spec2Model ----
(***************************************************************************)
(* Retrieval-augmented chat handler (pages/api/chat.ts and its variants).  *)
(*                                                                         *)
(* Three variants of the handler exist in the sources:                     *)
(*   "threshold" : src/pages/api/chat.ts:32   (summary above 14000 tokens, *)
(*                 callback-driven token delivery through ChatOpenAI)      *)
(*   "relay"     : src/unnamed/part_000:31    (unconditional summary,      *)
(*                 readAndWrite relay over a ReadableStream)               *)
(*   "edge"      : src/pages/api/chat.ts:222  (edge runtime, the stream is *)
(*                 returned in a Response)                                 *)
(* A process runs one variant; `variant` is fixed in Init.                 *)
(*                                                                         *)
(* JavaScript runs each continuation to completion, so one action is the   *)
(* code between two awaits: the settling of the awaited promise followed   *)
(* by everything the handler does until it suspends again.                 *)
(***************************************************************************)
EXTENDS Integers, Sequences, FiniteSets, TLC

(* ---------------------------- bounds ----------------------------------- *)
NumReqs   == 2      \* request slots of the process
MaxMsgs   == 3      \* longest conversation history in a request body
MaxChunks == 2      \* most chunks the generation oracle emits per request
TransportCapacity == 1   \* chunks the response's buffer takes before write() returns false

(* ------------------------ program constants ---------------------------- *)
SummaryThreshold  == 14000   \* chat.ts:84   documentTokens > 14000
GenerationReserve == 1000    \* chat.ts:133  tokenCount + tokens.length + 1000
TopK              == 3       \* chat.ts:47   getMatchesFromEmbeddings(.., 3)

Reqs     == 1..NumReqs
Variants == {"threshold", "relay", "edge"}
NodeVariants == {"threshold", "relay"}   \* (req: NextApiRequest, res: NextApiResponse)

(* ------------------------- input universes ----------------------------- *)
Contents    == {"hi", "story"}                 \* message contents
DocTexts    == {"docA", "docB"}                \* metadata.text of a match
Urls        == {"u1", "u2"}                    \* metadata.url of a match
Summaries   == {"sumX"}                        \* outputs of summarizeLongDocument
Chunks      == {"The", " answer"}              \* chunks / tokens of the generation oracle
ModelIds    == {"gpt-3.5-turbo", "unregistered"}
TokenLimits == {2000, 4000}
PromptTokenCounts == {500, 1500, 3500}         \* encoding.encode(promptToSend).length

\* encoding.encode(text).length, tabulated over the texts of the model
EncodeLen(text) ==
  CASE text = "hi"    -> 500
    [] text = "story" -> 1500
    [] text = "docA"  -> 7000
    [] text = "docB"  -> 7001
    [] text = "sumX"  -> 900
    [] OTHER          -> 1

\* encoding_for_model(model.id) throws for a model id without a codec
Registered(id) == id = "gpt-3.5-turbo"

RECURSIVE SeqsUpTo(_, _)
SeqsUpTo(S, n) ==
  IF n = 0 THEN {<<>>}
  ELSE LET shorter == SeqsUpTo(S, n - 1)
       IN  shorter \cup {Append(s, x) : s \in {t \in shorter : Len(t) = n - 1}, x \in S}

Match(u, t) == [url |-> u, text |-> t]
MatchKinds  == {Match(u, t) : u \in Urls, t \in DocTexts}

Bodies ==
  [model : [id : ModelIds, tokenLimit : TokenLimits], messages : SeqsUpTo(Contents, MaxMsgs)]
Indexes == SeqsUpTo(MatchKinds, TopK)

\* the inputs of the runs with concurrent requests
NarrowBodies ==
  {[model |-> [id |-> "gpt-3.5-turbo", tokenLimit |-> 4000], messages |-> <<"hi">>]}
NarrowIndexes == {<<Match("u1", "docB"), Match("u2", "docB")>>}
NarrowPromptTokenCounts == {500}
NarrowChunks == {"The"}

(* --------------------------- deduplication ----------------------------- *)
\* Array.from(new Set(matches.map(m => m.metadata.url))): insertion order of a Set
RECURSIVE SetOrderNewestFirst(_, _)
SetOrderNewestFirst(s, acc) ==
  IF s = <<>> THEN acc
  ELSE SetOrderNewestFirst(Tail(s),
         IF \E k \in 1..Len(acc) : acc[k] = Head(s) THEN acc ELSE <<Head(s)>> \o acc)

RECURSIVE SetOrder(_, _)
SetOrder(s, acc) ==
  IF s = <<>> THEN acc
  ELSE SetOrder(Tail(s),
                IF \E k \in 1..Len(acc) : acc[k] = Head(s) THEN acc ELSE Append(acc, Head(s)))

MatchUrls(matches) == [k \in 1..Len(matches) |-> matches[k].url]
UniqueUrls(matches) == SetOrder(MatchUrls(matches), <<>>)

\* matches.reduce((map, match) => { if (!map.has(url)) map.set(url, text) }, new Map())
\* the Map is a sequence of <<url, text>> entries in insertion order
RECURSIVE ReduceToMapLastWins(_, _)
ReduceToMapLastWins(matches, map) ==
  IF matches = <<>> THEN map
  ELSE LET m == Head(matches)
       IN  ReduceToMapLastWins(Tail(matches),
             IF \E k \in 1..Len(map) : map[k][1] = m.url
             THEN [k \in 1..Len(map) |->
                     IF map[k][1] = m.url THEN <<m.url, m.text>> ELSE map[k]]
             ELSE Append(map, <<m.url, m.text>>))

RECURSIVE ReduceToMap(_, _)
ReduceToMap(matches, map) ==
  IF matches = <<>> THEN map
  ELSE LET m == Head(matches)
       IN  ReduceToMap(Tail(matches),
                       IF \E k \in 1..Len(map) : map[k][1] = m.url
                       THEN map
                       ELSE Append(map, <<m.url, m.text>>))

\* Array.from(map).map(([_, text]) => text)
FullDocuments(matches) ==
  LET map == ReduceToMap(matches, <<>>)
  IN  [k \in 1..Len(map) |-> map[k][2]]

\* for (let doc of fullDocuments) documentTokens += encoding.encode(doc).length
RECURSIVE DocumentTokens(_)
DocumentTokens(docs) ==
  IF docs = <<>> THEN 0 ELSE EncodeLen(Head(docs)) + DocumentTokens(Tail(docs))

\* fullDocuments.join('\n'): the texts with the separator between them
RECURSIVE Join(_)
Join(docs) ==
  IF docs = <<>> THEN <<>>
  ELSE IF Len(docs) = 1 THEN <<docs[1]>>
  ELSE <<docs[1], "\n">> \o Join(Tail(docs))

\* if (documentTokens > 14000)
NeedsSummaryAtThreshold(documentTokens) == documentTokens >= SummaryThreshold
NeedsSummary(documentTokens) == documentTokens > SummaryThreshold

(* ---------------------------- budget loop ------------------------------ *)
\* the negation of: tokenCount + tokens.length + 1000 > model.tokenLimit
FitsWithoutReserve(tokenCount, tokens, tokenLimit) == tokenCount + tokens <= tokenLimit
Fits(tokenCount, tokens, tokenLimit) ==
  tokenCount + tokens + GenerationReserve <= tokenLimit

\* conversationHistory = [message, ...conversationHistory]
AdmitAppended(message, history) == Append(history, message)
Admit(message, history) == <<message>> \o history

\* for (let i = messages.length - 1; i >= 0; i--) { ... break ... }
\* i is the 1-based index of the turn under test
\* the loop with `continue` in place of `break`
RECURSIVE BudgetLoopSkipping(_, _, _, _, _)
BudgetLoopSkipping(messages, i, tokenCount, history, tokenLimit) ==
  IF i < 1 THEN [tokenCount |-> tokenCount, history |-> history]
  ELSE LET tokens == EncodeLen(messages[i])
       IN  IF ~Fits(tokenCount, tokens, tokenLimit)
           THEN BudgetLoopSkipping(messages, i - 1, tokenCount, history, tokenLimit)
           ELSE BudgetLoopSkipping(messages, i - 1, tokenCount + tokens,
                                   Admit(messages[i], history), tokenLimit)

RECURSIVE BudgetLoop(_, _, _, _, _)
BudgetLoop(messages, i, tokenCount, history, tokenLimit) ==
  IF i < 1 THEN [tokenCount |-> tokenCount, history |-> history]
  ELSE LET tokens == EncodeLen(messages[i])
       IN  IF ~Fits(tokenCount, tokens, tokenLimit)
           THEN [tokenCount |-> tokenCount, history |-> history]
           ELSE BudgetLoop(messages, i - 1, tokenCount + tokens,
                           Admit(messages[i], history), tokenLimit)

(* ------------------------------ state ---------------------------------- *)
VARIABLES
  variant,    \* which handler the process serves
  pinecone,   \* let pinecone: PineconeClient | null  (module scope)
  initCalls,  \* number of calls of initPineconeClient so far
  index,      \* the matches the vector index returns to a query
  rq          \* per request: position in the handler and its locals

vars == <<variant, pinecone, initCalls, index, rq>>

\* the response object `res` of a Node API route before the handler touches it
NewRes ==
  [statusCode |-> 200, sentStatus |-> 0, headers |-> FALSE,
   written |-> <<>>, buffered |-> 0, ended |-> FALSE, endCalls |-> 0]

NoPrompt == [summaries |-> <<>>, renders |-> 0]

NewRequest(b, p) ==
  [pc |-> p, model |-> b.model, messages |-> b.messages,
   disconnected |-> FALSE, failedAt |-> "none",
   encoding |-> "none", frees |-> 0,
   embedCalls |-> 0, queryCalls |-> 0, queriedOn |-> "none",
   matches |-> <<>>, urls |-> <<>>, fullDocuments |-> <<>>,
   summarizeCalls |-> 0, summary |-> <<>>,
   promptToSend |-> NoPrompt, promptTokens |-> 0,
   budgeted |-> FALSE, tokenCount |-> 0, messagesToSend |-> <<>>,
   sent |-> [prompt |-> NoPrompt, messages |-> <<>>, calls |-> 0],
   reads |-> 0, produced |-> <<>>, producerFailed |-> FALSE,
   res |-> NewRes, returned |-> 0]

\* live: the request slots that receive a request
InitWith(live, bodies, indexes) ==
  /\ variant \in Variants
  /\ pinecone = "null"
  /\ initCalls = 0
  /\ index \in indexes
  /\ \E b \in bodies :
       rq = [r \in Reqs |-> NewRequest(b, IF r \in live THEN "idle" ELSE "absent")]

Init == InitWith({1}, Bodies, Indexes)
InitConc == InitWith(Reqs, NarrowBodies, NarrowIndexes)

Set(r, q) == rq' = [rq EXCEPT ![r] = q]

(* ----------------------- the response object --------------------------- *)
\* res.write(value): the first write flushes the status line; the chunk stays in
\* the response's buffer until the transport has taken it. write() returns false
\* once the buffer holds TransportCapacity chunks; no caller reads that value.
resWriteDropping(res, value) ==
  IF res.written = <<>> THEN
    [res EXCEPT !.written = Append(@, value),
                !.buffered = @ + 1,
                !.sentStatus = IF @ = 0 THEN res.statusCode ELSE @]
  ELSE res
resWrite(res, value) ==
  IF res.ended THEN res
  ELSE [res EXCEPT !.written = Append(@, value),
                   !.buffered = @ + 1,
                   !.sentStatus = IF @ = 0 THEN res.statusCode ELSE @]

\* res.end()
resEnd(res) ==
  [res EXCEPT !.ended = TRUE, !.endCalls = @ + 1,
              !.sentStatus = IF @ = 0 THEN res.statusCode ELSE @]

\* res.status(code): takes effect only while the status line is unsent
resStatus(res, code) ==
  IF res.sentStatus = 0 THEN [res EXCEPT !.statusCode = code] ELSE res

ErrorBody == "An error occurred while streaming data."

(* ---------------------- the handler, step by step ---------------------- *)
\* catch (error) { console.error(error); return new Response('Error', {status: 500}) }
\* A Node API route ignores the value its handler returns: only `res` reaches the
\* caller. The edge runtime sends the returned Response.
Catch(q) ==
  [q EXCEPT !.pc = "failed", !.failedAt = q.pc, !.returned = 500]

\* embedder.embedQuery(...)
CallEmbed(q) == [q EXCEPT !.pc = "awaitEmbed", !.embedCalls = @ + 1]

\* inquiryChain.call(...)
CallInquiry(q) == [q EXCEPT !.pc = "awaitInquiry"]

\* encoding_for_model(model.id) / new Tiktoken(...), then up to the next await
AcquireCodec(q) ==
  CASE variant = "threshold" ->
         IF ~Registered(q.model.id) THEN Catch([q EXCEPT !.pc = "codec"])
         ELSE LET q1 == [q EXCEPT !.encoding = "live"]
              IN  \* messages[messages.length-1].content of an empty history throws
                  IF q1.messages = <<>>
                  THEN Catch([q1 EXCEPT !.pc = "lastMessage"])
                  ELSE CallEmbed(q1)
    [] variant = "relay" ->
         IF ~Registered(q.model.id) THEN Catch([q EXCEPT !.pc = "codec"])
         ELSE CallInquiry([q EXCEPT !.encoding = "live"])
    [] OTHER ->
         \* cl100k_base for every model id
         CallInquiry([q EXCEPT !.encoding = "live"])

\* the code after `if (!pinecone) await initPineconeClient()`
AfterInit(q) ==
  IF variant = "edge" THEN [q EXCEPT !.pc = "awaitJson"] ELSE AcquireCodec(q)

\* pinecone = new PineconeClient(), the synchronous head of initPineconeClient
ClientAssignedAfterInit == "null"
ClientConstructed == "constructed"

\* handler entry: if (!pinecone) { await initPineconeClient() }
Start(r) ==
  /\ rq[r].pc = "idle"
  /\ IF pinecone = "null"
     THEN /\ pinecone' = ClientConstructed
          /\ initCalls' = initCalls + 1
          /\ Set(r, [rq[r] EXCEPT !.pc = "awaitInit"])
     ELSE /\ Set(r, AfterInit(rq[r]))
          /\ UNCHANGED <<pinecone, initCalls>>
  /\ UNCHANGED <<variant, index>>

\* pinecone.init(...) resolves
InitResolve(r) ==
  /\ rq[r].pc = "awaitInit"
  /\ pinecone' = "initialized"
  /\ Set(r, AfterInit(rq[r]))
  /\ UNCHANGED <<variant, initCalls, index>>

\* pinecone.init(...) rejects: the handle stays assigned
InitReject(r) ==
  /\ rq[r].pc = "awaitInit"
  /\ pinecone' = IF pinecone = "null" THEN "null" ELSE "initFailed"
  /\ Set(r, Catch(rq[r]))
  /\ UNCHANGED <<variant, initCalls, index>>

\* edge: await req.json() resolves, then await init(wasm)
JsonResolve(r) ==
  /\ rq[r].pc = "awaitJson"
  /\ Set(r, [rq[r] EXCEPT !.pc = "awaitWasm"])
  /\ UNCHANGED <<variant, pinecone, initCalls, index>>

\* edge: await init(wasm) resolves
WasmResolve(r) ==
  /\ rq[r].pc = "awaitWasm"
  /\ Set(r, AcquireCodec(rq[r]))
  /\ UNCHANGED <<variant, pinecone, initCalls, index>>

\* inquiryChain.call resolves; embedder.embedQuery(inquiry)
InquiryResolve(r) ==
  /\ rq[r].pc = "awaitInquiry"
  /\ Set(r, CallEmbed(rq[r]))
  /\ UNCHANGED <<variant, pinecone, initCalls, index>>

\* embedQuery resolves; getMatchesFromEmbeddings(embeddings, pinecone!, 3)
EmbedResolve(r) ==
  /\ rq[r].pc = "awaitEmbed"
  /\ Set(r, [rq[r] EXCEPT !.pc = "awaitMatches", !.queryCalls = @ + 1,
                          !.queriedOn = pinecone])
  /\ UNCHANGED <<variant, pinecone, initCalls, index>>

\* the `summaries` argument of promptQA.format
Context(q) ==
  IF variant = "threshold" THEN Join(q.fullDocuments) ELSE q.summary

\* summarizeLongDocument(fullDocuments!.join('\n'), ...)
CallSummarize(q) == [q EXCEPT !.pc = "awaitSummary", !.summarizeCalls = @ + 1]

\* promptQA.format({summaries, question, conversationHistory, urls})
CallFormat(q) == [q EXCEPT !.pc = "awaitFormat"]

\* getMatchesFromEmbeddings resolves with the matches of the index: urls,
\* fullDocuments, documentTokens, then the summary or the prompt
MatchesResolve(r) ==
  /\ rq[r].pc = "awaitMatches"
  /\ LET q == [rq[r] EXCEPT !.matches = index,
                            !.urls = UniqueUrls(index),
                            !.fullDocuments = FullDocuments(index)]
     IN  Set(r, IF variant = "threshold"
                THEN IF NeedsSummary(DocumentTokens(q.fullDocuments))
                     THEN CallSummarize(q)
                     ELSE CallFormat(q)
                ELSE CallSummarize(q))
  /\ UNCHANGED <<variant, pinecone, initCalls, index>>

\* summarizeLongDocument resolves with the oracle's summary s
SummaryResolve(r, s) ==
  /\ rq[r].pc = "awaitSummary"
  /\ Set(r, CallFormat([rq[r] EXCEPT !.summary = <<s>>]))
  /\ UNCHANGED <<variant, pinecone, initCalls, index>>

\* chain.call({summaries, question: promptToSend, conversationHistory, urls}) renders
\* qaTemplate around the rendered prompt; OpenAIStream(model, promptToSend, ..,
\* messagesToSend) sends the rendered prompt itself
CallOracle(q) ==
  IF variant = "threshold"
  THEN [q EXCEPT !.pc = "streaming",
                 !.sent = [prompt |-> [summaries |-> Join(q.fullDocuments),
                                       renders |-> q.promptToSend.renders + 1],
                           messages |-> q.messagesToSend, calls |-> 1]]
  ELSE [q EXCEPT !.pc = "awaitStream",
                 !.sent = [prompt |-> q.promptToSend,
                           messages |-> q.messagesToSend, calls |-> 1]]

\* promptQA.format resolves with a prompt of n tokens; the budget loop;
\* encoding.free(); the call of the generation oracle
FormatResolve(r, n) ==
  /\ rq[r].pc = "awaitFormat"
  /\ LET q    == rq[r]
         loop == BudgetLoop(q.messages, Len(q.messages), n, <<>>, q.model.tokenLimit)
     IN  Set(r, CallOracle([q EXCEPT !.promptToSend = [summaries |-> Context(q), renders |-> 1],
                                     !.promptTokens = n,
                                     !.budgeted = TRUE,
                                     !.tokenCount = loop.tokenCount,
                                     !.messagesToSend = loop.history,
                                     !.encoding = "freed",
                                     !.frees = @ + 1]))
  /\ UNCHANGED <<variant, pinecone, initCalls, index>>

\* OpenAIStream resolves. relay: setHeader twice, stream.getReader(), the first
\* readAndWrite() issues reader.read(). edge: return new Response(stream)
StreamResolve(r) ==
  /\ rq[r].pc = "awaitStream"
  /\ Set(r, IF variant = "relay"
            THEN [rq[r] EXCEPT !.pc = "reading", !.res.headers = TRUE, !.reads = @ + 1]
            ELSE [rq[r] EXCEPT !.pc = "done", !.returned = 200])
  /\ UNCHANGED <<variant, pinecone, initCalls, index>>

\* readAndWrite: reader.read() resolves {value, done: false}:
\* res.write(value); readAndWrite() issues the next read
ReadChunk(r, value) ==
  /\ rq[r].pc = "reading"
  /\ Len(rq[r].produced) < MaxChunks
  /\ Set(r, [rq[r] EXCEPT !.produced = Append(@, value),
                          !.res = resWrite(@, value),
                          !.reads = @ + 1])
  /\ UNCHANGED <<variant, pinecone, initCalls, index>>

\* `return` after res.end(): the relay issues no further read
RelayFallsThrough == "reading"
RelayAfterEnd == "done"

\* readAndWrite: reader.read() resolves {done: true}: res.end(); return
ReadDone(r) ==
  /\ rq[r].pc = "reading"
  /\ Set(r, [rq[r] EXCEPT !.pc = RelayAfterEnd, !.res = resEnd(@)])
  /\ UNCHANGED <<variant, pinecone, initCalls, index>>

\* readAndWrite().catch(...) is attached to the promise of the first call only:
\* the recursive readAndWrite() is neither awaited nor returned
CaughtByRelay(reads) == reads = 1

\* readAndWrite: reader.read() rejects
ReadReject(r) ==
  /\ rq[r].pc = "reading"
  /\ Set(r, IF CaughtByRelay(rq[r].reads)
            THEN \* res.status(500).end('An error occurred while streaming data.')
                 [rq[r] EXCEPT !.pc = "failed", !.failedAt = "reading",
                               !.producerFailed = TRUE,
                               !.res = resEnd(resWrite(resStatus(@, 500), ErrorBody))]
            ELSE \* unhandled rejection: nothing runs for this request any more
                 [rq[r] EXCEPT !.pc = "unhandled", !.failedAt = "reading",
                               !.producerFailed = TRUE])
  /\ UNCHANGED <<variant, pinecone, initCalls, index>>

\* threshold: handleLLMNewToken(token) { res.write(token) }
handleLLMNewToken(r, token) ==
  /\ rq[r].pc = "streaming"
  /\ Len(rq[r].produced) < MaxChunks
  /\ Set(r, [rq[r] EXCEPT !.produced = Append(@, token), !.res = resWrite(@, token)])
  /\ UNCHANGED <<variant, pinecone, initCalls, index>>

\* threshold: handleLLMEnd(result) { res.end() }, then chain.call resolves
handleLLMEnd(r) ==
  /\ rq[r].pc = "streaming"
  /\ Set(r, [rq[r] EXCEPT !.pc = "done", !.res = resEnd(@)])
  /\ UNCHANGED <<variant, pinecone, initCalls, index>>

\* the awaits inside try { } other than pinecone.init
TryAwaits ==
  {"awaitJson", "awaitWasm", "awaitInquiry", "awaitEmbed", "awaitMatches",
   "awaitSummary", "awaitFormat", "awaitStream", "streaming"}

\* an awaited call rejects: control passes to catch
AwaitRejects(r) ==
  /\ rq[r].pc \in TryAwaits
  /\ Set(r, Catch([rq[r] EXCEPT !.producerFailed = (rq[r].pc = "streaming")]))
  /\ UNCHANGED <<variant, pinecone, initCalls, index>>

InFlight ==
  TryAwaits \cup {"awaitInit", "reading"}

\* the caller closes the connection; the handlers register no listener for it
Disconnect(r) ==
  /\ rq[r].pc \in InFlight
  /\ ~rq[r].disconnected
  /\ Set(r, [rq[r] EXCEPT !.disconnected = TRUE])
  /\ UNCHANGED <<variant, pinecone, initCalls, index>>

Step(r, promptTokenCounts, chunks) ==
  \/ Start(r)
  \/ InitResolve(r)
  \/ InitReject(r)
  \/ JsonResolve(r)
  \/ WasmResolve(r)
  \/ InquiryResolve(r)
  \/ EmbedResolve(r)
  \/ MatchesResolve(r)
  \/ \E s \in Summaries : SummaryResolve(r, s)
  \/ \E n \in promptTokenCounts : FormatResolve(r, n)
  \/ StreamResolve(r)
  \/ \E c \in chunks : ReadChunk(r, c)
  \/ ReadDone(r)
  \/ ReadReject(r)
  \/ \E c \in chunks : handleLLMNewToken(r, c)
  \/ handleLLMEnd(r)
  \/ AwaitRejects(r)
  \/ Disconnect(r)

\* the transport takes a chunk out of the response's buffer ('drain')
Drain(r) ==
  /\ rq[r].res.buffered > 0
  /\ Set(r, [rq[r] EXCEPT !.res.buffered = @ - 1])
  /\ UNCHANGED <<variant, pinecone, initCalls, index>>

Next == \E r \in Reqs : Step(r, PromptTokenCounts, Chunks)
NextFlow == \E r \in Reqs : Step(r, NarrowPromptTokenCounts, Chunks) \/ Drain(r)
NextConc == \E r \in Reqs : Step(r, NarrowPromptTokenCounts, NarrowChunks)

\* one request, the whole range of inputs
Spec == Init /\ [][Next]_vars
\* concurrent requests on one process
SpecConc == InitConc /\ [][NextConc]_vars
\* one request and a transport that drains the response's buffer at its own pace
InitFlow == InitWith({1}, NarrowBodies, NarrowIndexes)
SpecFlow == InitFlow /\ [][NextFlow]_vars

(* ======================= properties of the handler ===================== *)
Terminal == {"done", "failed", "unhandled"}

RECURSIVE SumTokens(_)
SumTokens(turns) ==
  IF turns = <<>> THEN 0 ELSE EncodeLen(Head(turns)) + SumTokens(Tail(turns))

\* the turns of `messages` from index k to the newest
Suffix(messages, k) == SubSeq(messages, k, Len(messages))

\* C1 as claimed: whenever the budget loop has finished, tokenCount plus the
\* generation reserve of 1000 is at most model.tokenLimit, for every prompt size.
C1_BudgetBoundAlways ==
  \A r \in Reqs :
    rq[r].budgeted => rq[r].tokenCount + GenerationReserve <= rq[r].model.tokenLimit

\* C1 amended: after the budget loop tokenCount is the prompt's tokens plus the
\* tokens of the admitted turns; it respects model.tokenLimit - 1000 whenever the
\* rendered prompt alone does, and otherwise no turn is admitted and tokenCount
\* stays the prompt's token count.
C1_BudgetBound ==
  \A r \in Reqs :
    rq[r].budgeted =>
      /\ rq[r].tokenCount = rq[r].promptTokens + SumTokens(rq[r].messagesToSend)
      /\ rq[r].promptTokens + GenerationReserve <= rq[r].model.tokenLimit
           => rq[r].tokenCount + GenerationReserve <= rq[r].model.tokenLimit
      /\ rq[r].promptTokens + GenerationReserve > rq[r].model.tokenLimit
           => rq[r].messagesToSend = <<>> /\ rq[r].tokenCount = rq[r].promptTokens

\* the loop admitted some turns, stopped before the oldest, and filled the budget exactly
C1_Witness ==
  \E r \in Reqs :
    /\ rq[r].budgeted
    /\ rq[r].messagesToSend # <<>>
    /\ Len(rq[r].messagesToSend) < Len(rq[r].messages)
    /\ rq[r].tokenCount + GenerationReserve = rq[r].model.tokenLimit

\* C2: the admitted turns are a contiguous suffix of messages in the original
\* oldest-first order, with no turn duplicated or reordered.
C2_ContiguousSuffix ==
  \A r \in Reqs :
    rq[r].budgeted =>
      /\ Len(rq[r].messagesToSend) <= Len(rq[r].messages)
      /\ rq[r].messagesToSend =
           Suffix(rq[r].messages, Len(rq[r].messages) - Len(rq[r].messagesToSend) + 1)

\* two different turns admitted, an older one left out
C2_Witness ==
  \E r \in Reqs :
    /\ rq[r].budgeted
    /\ Len(rq[r].messagesToSend) = 2
    /\ Len(rq[r].messages) = 3
    /\ rq[r].messagesToSend[1] # rq[r].messagesToSend[2]

\* the indices of the matches that carry their url for the first time
FirstOccurrences(matches) ==
  {i \in 1..Len(matches) : \A j \in 1..(i - 1) : matches[j].url # matches[i].url}

\* the k-th smallest element of a set of numbers
RECURSIVE Nth(_, _)
Nth(S, k) ==
  LET least == CHOOSE x \in S : \A y \in S : x <= y
  IN  IF k = 1 THEN least ELSE Nth(S \ {least}, k - 1)

\* the texts of the first-occurrence matches, in the order of the matches
FirstOccurrenceTexts(matches) ==
  LET first == FirstOccurrences(matches)
  IN  [k \in 1..Cardinality(first) |-> matches[Nth(first, k)].text]

\* texts joined by "\n": text k at position 2k - 1, separators in between
Joined(texts) ==
  [k \in 1..(IF texts = <<>> THEN 0 ELSE 2 * Len(texts) - 1) |->
     IF k % 2 = 1 THEN texts[(k + 1) \div 2] ELSE "\n"]

Rendered(r) == rq[r].promptToSend.renders >= 1

\* C3 as claimed: in the handler with the size threshold, documents of more than
\* 14000 tokens make the handler call the summarizer and put its summary, not the
\* joined documents, into the prompt and into the call of the generation oracle.
C3_SummaryReplacesDocuments ==
  \A r \in Reqs :
    (/\ variant = "threshold"
     /\ Rendered(r)
     /\ DocumentTokens(rq[r].fullDocuments) > SummaryThreshold)
    => /\ rq[r].summarizeCalls = 1
       /\ rq[r].promptToSend.summaries = rq[r].summary
       /\ rq[r].sent.prompt.summaries = rq[r].summary

\* C4 as claimed: in every handler, documents of at most 14000 tokens are never
\* summarized and the prompt's context is their texts joined in first-occurrence order.
C4_SmallDocumentsVerbatimEverywhere ==
  \A r \in Reqs :
    (/\ Rendered(r)
     /\ DocumentTokens(FirstOccurrenceTexts(rq[r].matches)) <= SummaryThreshold)
    => /\ rq[r].summarizeCalls = 0
       /\ rq[r].promptToSend.summaries = Joined(FirstOccurrenceTexts(rq[r].matches))
       /\ rq[r].sent.prompt.summaries = Joined(FirstOccurrenceTexts(rq[r].matches))

\* C4 amended: in the handler with the size threshold, documents of at most 14000
\* tokens (14000 included) are never summarized and the prompt's context is their
\* texts joined in first-occurrence order, unmodified.
C4_SmallDocumentsVerbatim ==
  \A r \in Reqs :
    (/\ variant = "threshold"
     /\ Rendered(r)
     /\ DocumentTokens(FirstOccurrenceTexts(rq[r].matches)) <= SummaryThreshold)
    => /\ rq[r].summarizeCalls = 0
       /\ rq[r].promptToSend.summaries = Joined(FirstOccurrenceTexts(rq[r].matches))
       /\ rq[r].sent.prompt.summaries = Joined(FirstOccurrenceTexts(rq[r].matches))

\* three matches, two urls, the documents total exactly 14000 tokens
C4_Witness ==
  \E r \in Reqs :
    /\ variant = "threshold"
    /\ Rendered(r)
    /\ Len(rq[r].matches) = 3
    /\ Len(rq[r].fullDocuments) = 2
    /\ rq[r].matches[1].url = rq[r].matches[2].url
    /\ DocumentTokens(rq[r].fullDocuments) = SummaryThreshold
    /\ rq[r].summarizeCalls = 0

\* C5: when the producer's stream ends, the response holds exactly the chunks the
\* producer emitted, each once and in order, and has been ended once; while the
\* relay runs, what was written is what was received.
C5_RelayDeliversAll ==
  \A r \in Reqs :
    /\ (variant \in NodeVariants /\ rq[r].pc \in {"streaming", "reading"})
         => rq[r].res.written = rq[r].produced /\ ~rq[r].res.ended
    /\ (variant \in NodeVariants /\ rq[r].pc = "done")
         => /\ rq[r].res.written = rq[r].produced
            /\ rq[r].res.ended
            /\ rq[r].res.endCalls = 1
            /\ rq[r].res.sentStatus = 200

\* two different chunks relayed, then end-of-stream
C5_Witness ==
  \E r \in Reqs :
    /\ variant \in NodeVariants
    /\ rq[r].pc = "done"
    /\ Len(rq[r].produced) = 2
    /\ rq[r].produced[1] # rq[r].produced[2]

\* C6 as claimed: once the producer has failed after a chunk was forwarded and the
\* handler has nothing left to run, the response has been ended with an error write.
C6_FailureFinalizesResponse ==
  \A r \in Reqs :
    (/\ rq[r].producerFailed
     /\ rq[r].produced # <<>>
     /\ rq[r].pc \in Terminal)
    => /\ rq[r].res.ended
       /\ rq[r].res.written # rq[r].produced

\* what the caller's connection has received as status line (0: nothing)
CallerStatus(r) ==
  IF variant \in NodeVariants THEN rq[r].res.sentStatus ELSE rq[r].returned

BeforeFirstByte ==
  {"awaitInit", "codec", "awaitWasm", "awaitEmbed", "awaitMatches", "awaitSummary"}

\* C7 as claimed: a request that failed in client initialization, tokenizer
\* initialization, embedding, retrieval or summarization has sent status 500.
C7_EarlyFailureSends500 ==
  \A r \in Reqs :
    (rq[r].pc = "failed" /\ rq[r].failedAt \in BeforeFirstByte)
    => CallerStatus(r) = 500

\* C8 as claimed: once the caller has disconnected, no further chunk is read from
\* the producer or written to the response.
C8_DisconnectCancels ==
  [][\A r \in Reqs :
       rq[r].disconnected =>
         /\ rq'[r].reads = rq[r].reads
         /\ rq'[r].produced = rq[r].produced
         /\ rq'[r].res.written = rq[r].res.written]_vars

\* C9 as claimed: a request that acquired the codec and has ended, in whatever
\* way, has freed it exactly once.
C9_CodecFreedOnEveryExit ==
  \A r \in Reqs :
    (rq[r].pc \in Terminal /\ rq[r].encoding # "none") => rq[r].frees = 1

\* C10: initPineconeClient has run once as soon as any request has entered the
\* handler, and never runs a second time, whatever the requests' interleaving
\* and whether pinecone.init resolved or rejected.
C10_InitOnce ==
  /\ initCalls <= 1
  /\ (\E r \in Reqs : rq[r].pc # "idle") => initCalls = 1
  /\ (pinecone = "null") <=> (initCalls = 0)

\* a second request entered the handler while the first one's init was pending
C10_Witness ==
  \E r1, r2 \in Reqs :
    /\ r1 # r2
    /\ rq[r1].pc = "awaitInit"
    /\ rq[r2].pc \notin {"idle", "awaitInit"}
    /\ pinecone = "constructed"

\* the request has its matches: getMatchesFromEmbeddings resolved
Retrieved(r) ==
  /\ rq[r].queryCalls = 1
  /\ rq[r].pc # "awaitMatches"
  /\ ~(rq[r].pc = "failed" /\ rq[r].failedAt = "awaitMatches")

\* the awaits that precede the codec lookup
BeforeCodec == {"awaitInit", "awaitJson", "awaitWasm"}

\* C11 as claimed: a request whose model id has no registered codec never issues an
\* embedding or a vector-index query, and when it has ended it has failed, at the
\* codec lookup or at an await that precedes it.
C11_UnregisteredModelFailsFast ==
  \A r \in Reqs :
    ~Registered(rq[r].model.id) =>
      /\ rq[r].embedCalls = 0
      /\ rq[r].queryCalls = 0
      /\ rq[r].pc \in Terminal =>
           (rq[r].pc = "failed" /\ rq[r].failedAt \in BeforeCodec \cup {"codec"})

\* the urls of the first-occurrence matches, in the order of the matches
FirstOccurrenceUrls(matches) ==
  LET first == FirstOccurrences(matches)
  IN  [k \in 1..Cardinality(first) |-> matches[Nth(first, k)].url]

\* C12: deduplication yields one document and one source id per distinct url, both
\* in the order of the url's first occurrence; document i is the text of the first
\* match that carries url i.
C12_DedupFirstOccurrence ==
  \A r \in Reqs :
    Retrieved(r) =>
      /\ Len(rq[r].urls) = Cardinality({rq[r].matches[i].url : i \in 1..Len(rq[r].matches)})
      /\ Len(rq[r].fullDocuments) = Len(rq[r].urls)
      /\ \A i, j \in 1..Len(rq[r].urls) : i # j => rq[r].urls[i] # rq[r].urls[j]
      /\ rq[r].urls = FirstOccurrenceUrls(rq[r].matches)
      /\ \A i \in 1..Len(rq[r].urls) :
           \E k \in 1..Len(rq[r].matches) :
             /\ rq[r].matches[k].url = rq[r].urls[i]
             /\ \A j \in 1..(k - 1) : rq[r].matches[j].url # rq[r].urls[i]
             /\ rq[r].fullDocuments[i] = rq[r].matches[k].text

\* a url carried by two matches with different texts, after another url
C12_Witness ==
  \E r \in Reqs :
    /\ Retrieved(r)
    /\ Len(rq[r].matches) = 3
    /\ rq[r].matches[1].url # rq[r].matches[2].url
    /\ rq[r].matches[3].url = rq[r].matches[1].url
    /\ rq[r].matches[3].text # rq[r].matches[1].text
    /\ Len(rq[r].fullDocuments) = 2

\* C13: the response is ended at most once, and once it has been ended nothing
\* about it changes any more: no chunk, no header, no status, no second end.
C13_FinalizedOnce ==
  [][\A r \in Reqs :
       /\ rq'[r].res.endCalls <= 1
       /\ rq[r].res.ended => rq'[r].res = rq[r].res
       /\ rq[r].returned # 0 => rq'[r].returned = rq[r].returned]_vars

\* a relayed response that was ended after a chunk
C13_Witness ==
  \E r \in Reqs :
    /\ rq[r].res.ended
    /\ rq[r].res.endCalls = 1
    /\ rq[r].res.written # <<>>
    /\ rq[r].pc = "done"

\* the matches that pair url k with document k
Paired(urls, documents) ==
  [k \in 1..Len(urls) |-> Match(urls[k], documents[k])]

\* C14: deduplicating the deduplicated result again changes nothing, matches with
\* pairwise distinct urls come back as they are, and no matches give no documents
\* and no source ids.
C14_DedupIdempotent ==
  \A r \in Reqs :
    Retrieved(r) =>
      LET again == Paired(rq[r].urls, rq[r].fullDocuments)
      IN  /\ Len(rq[r].urls) = Len(rq[r].fullDocuments)
          /\ UniqueUrls(again) = rq[r].urls
          /\ FullDocuments(again) = rq[r].fullDocuments
          /\ (\A i, j \in 1..Len(rq[r].matches) :
                i # j => rq[r].matches[i].url # rq[r].matches[j].url)
               => /\ rq[r].urls = [k \in 1..Len(rq[r].matches) |-> rq[r].matches[k].url]
                  /\ rq[r].fullDocuments =
                       [k \in 1..Len(rq[r].matches) |-> rq[r].matches[k].text]
          /\ rq[r].matches = <<>> => (rq[r].urls = <<>> /\ rq[r].fullDocuments = <<>>)

\* two matches with different urls went through deduplication
C14_Witness ==
  \E r \in Reqs :
    /\ Retrieved(r)
    /\ Len(rq[r].matches) = 2
    /\ rq[r].matches[1].url # rq[r].matches[2].url
    /\ rq[r].matches[1].text # rq[r].matches[2].text
    /\ Len(rq[r].urls) = 2

\* the newest j turns fit beside the rendered prompt and the reserve
FitsNewest(r, j) ==
  rq[r].promptTokens
    + SumTokens(Suffix(rq[r].messages, Len(rq[r].messages) - j + 1))
    + GenerationReserve <= rq[r].model.tokenLimit

\* C15: the admitted turns are the longest suffix that fits: every admitted turn
\* passed the check together with all newer turns, and the turn just older than
\* the admitted ones failed it, so nothing older than that turn is admitted.
C15_LongestFittingSuffix ==
  \A r \in Reqs :
    rq[r].budgeted =>
      LET k == Len(rq[r].messagesToSend)
      IN  /\ k <= Len(rq[r].messages)
          /\ \A j \in 1..k : FitsNewest(r, j)
          /\ k < Len(rq[r].messages) => ~FitsNewest(r, k + 1)
          /\ rq[r].messagesToSend = Suffix(rq[r].messages, Len(rq[r].messages) - k + 1)

\* the newest turn is admitted, the next one fails, and the oldest one, which would
\* fit in what is left, is not admitted
C15_Witness ==
  \E r \in Reqs :
    /\ rq[r].budgeted
    /\ Len(rq[r].messages) = 3
    /\ Len(rq[r].messagesToSend) = 1
    /\ Fits(rq[r].tokenCount, EncodeLen(rq[r].messages[1]), rq[r].model.tokenLimit)
    /\ ~Fits(rq[r].tokenCount, EncodeLen(rq[r].messages[2]), rq[r].model.tokenLimit)

\* C16: when the rendered prompt plus the reserve exceeds model.tokenLimit, the loop
\* admits no turn and raises nothing: the codec is freed once and the generation
\* oracle is called with an empty history.
C16_OversizedPromptAdmitsNothing ==
  \A r \in Reqs :
    (/\ rq[r].budgeted
     /\ rq[r].promptTokens + GenerationReserve > rq[r].model.tokenLimit)
    => /\ rq[r].messagesToSend = <<>>
       /\ rq[r].tokenCount = rq[r].promptTokens
       /\ rq[r].encoding = "freed"
       /\ rq[r].frees = 1
       /\ rq[r].sent.calls = 1
       /\ rq[r].sent.messages = <<>>
       /\ rq[r].failedAt # "awaitFormat"

\* a prompt over the budget with turns that were all left out, oracle call pending
C16_Witness ==
  \E r \in Reqs :
    /\ rq[r].budgeted
    /\ rq[r].promptTokens + GenerationReserve > rq[r].model.tokenLimit
    /\ rq[r].promptTokens <= rq[r].model.tokenLimit
    /\ Len(rq[r].messages) = 2
    /\ rq[r].messagesToSend = <<>>
    /\ rq[r].pc \in {"awaitStream", "streaming"}

\* C17 as claimed: every vector-index query is issued on a client whose init has
\* resolved.
C17_QueryOnInitializedClient ==
  \A r \in Reqs : rq[r].queryCalls >= 1 => rq[r].queriedOn = "initialized"

\* C18 as claimed: the chunks written and not yet drained never exceed the
\* transport's capacity, because the relay stops reading and writing while the
\* buffer is full.
C18_BackPressureRespected ==
  \A r \in Reqs : rq[r].res.buffered <= TransportCapacity

\* C19 as claimed: the generation oracle receives the rendered prompt whose tokens
\* seeded the budget, rendered once, together with the admitted turns.
C19_CountedPromptIsSent ==
  \A r \in Reqs :
    rq[r].sent.calls = 1 =>
      /\ rq[r].sent.prompt = rq[r].promptToSend
      /\ rq[r].sent.prompt.renders = 1
      /\ rq[r].sent.messages = rq[r].messagesToSend

====
